---- MODULE Spec2Model ----
(***************************************************************************)
(* Request-authorization pipeline of the e-commerce CMS server:            *)
(* token verification (middleware/auth.js), the admin gate, the upload     *)
(* gate, the login rate limiter and token issuance (authController.js),    *)
(* the route chains (routes/*.js) and updateUserRole (adminController).    *)
(*                                                                         *)
(* Node runs every handler on one thread: the code between two awaits is   *)
(* one atomic step.  Each action below is one such synchronous segment.    *)
(* An awaited store read together with the continuation that consumes it   *)
(* is one step when the continuation touches nothing but request-local     *)
(* data.                                                                   *)
(***************************************************************************)
EXTENDS Integers, Sequences, FiniteSets, TLC

VARIABLES now, users, loginAttempts, issued, reqs, logins, ticks, accepted,
          registers, products, jwtSecret, server, allowedSince

vars == <<now, users, loginAttempts, issued, reqs, logins, ticks, accepted,
         registers, products, jwtSecret, server, allowedSince>>

----------------------------------------------------------------------------
(* Bounds of the model *)

\* number of requests of the gated pipeline that are in flight at once
NumReq == 1
\* number of login requests in flight at once
NumLogin == 1
\* number of clock advances in one behaviour
MaxTicks == 2

\* number of register requests in flight at once
NumReg == 2
\* number of login requests for one key in flight at once
NumRace == 2

Reqs == 1..NumReq
Logins == 1..NumLogin
Regs == 1..NumReg

----------------------------------------------------------------------------
(* Program constants *)

\* authController.js:23  RATE_LIMIT_WINDOW = 15 * 60 * 1000 (milliseconds)
RATE_LIMIT_WINDOW == 15 * 60 * 1000
\* authController.js:24
MAX_LOGIN_ATTEMPTS == 5
\* authController.js:58  expiresIn: '24h', in seconds as jsonwebtoken counts
TokenLifetime == 24 * 60 * 60

\* A time no behaviour of the model reaches (seconds), for crafted tokens.
FarFuture == 10 * TokenLifetime

----------------------------------------------------------------------------
(* JavaScript values.  A value carries its type, so that === between an    *)
(* ObjectId and a string is computed, not assumed.                         *)

Oid(u) == [t |-> "oid", v |-> u]
Str(s) == [t |-> "str", v |-> s]
Undefined == [t |-> "undef", v |-> ""]

\* JavaScript truthiness of the values above: !x is ~Truthy(x)
Truthy(x) == x.t # "undef" /\ ~(x.t = "str" /\ x.v = "")

\* ObjectId.prototype.toString / JSON serialisation of an ObjectId
OidToString(x) == IF x.t = "oid" THEN Str(x.v) ELSE x

\* the === operator: no conversion, an object is never === a string
StrictEq(x, y) == x.t = y.t /\ x.v = y.v

----------------------------------------------------------------------------
(* Credential store (the users collection) *)

UserIds == {"u1", "u2", "u3"}
Statuses == {"active", "suspended", "pending"}

NoDoc == [exists |-> FALSE, id |-> "", name |-> "", email |-> <<>>,
          password |-> "", isAdmin |-> FALSE, accountStatus |-> ""]

Doc(u, n, e, p, a, s) == [exists |-> TRUE, id |-> u, name |-> n, email |-> e,
                          password |-> p, isAdmin |-> a, accountStatus |-> s]

\* bcrypt.hash / bcrypt.compare: the hash determines the password
BcryptHash(p) == "h:" \o p
BcryptCompare(p, h) == h = BcryptHash(p)

\* a string mongoose can cast to an ObjectId
Castable(x) == x.t = "str" /\ x.v \in UserIds

\* User.findById(id) when the store answers: the document or null
FindById(store, x) == IF Castable(x) THEN store[x.v] ELSE NoDoc

\* User.findOne({email}) when the store answers
FindOneByEmail(store, e) ==
    IF \E u \in UserIds : store[u].exists /\ store[u].email = e
    THEN store[CHOOSE u \in UserIds : store[u].exists /\ store[u].email = e]
    ELSE NoDoc

InitUsers ==
    [u \in UserIds |->
        IF u = "u1" THEN Doc("u1", "Ann", <<"a", "@", "x", ".", "y">>, BcryptHash("Pw1"), TRUE, "active")
        ELSE IF u = "u2" THEN Doc("u2", "Bob", <<"b", "@", "x", ".", "y">>, BcryptHash("Pw2"), FALSE, "active")
        ELSE NoDoc]

----------------------------------------------------------------------------
(* Tokens (jsonwebtoken) *)

NoClaim == 0 - 1

NoToken == [sig |-> "none", id |-> Undefined, isAdmin |-> FALSE,
            iat |-> 0, exp |-> 0, nbf |-> NoClaim]

\* Date.now() / 1000 rounded down, the clock jsonwebtoken uses
ClockSeconds(t) == t \div 1000

\* variant: the lifetime given to jwt.sign as a number of milliseconds,
\* which jsonwebtoken reads as seconds
generateToken_lifetimeInMs(userId, isAdmin, t) ==
    [sig |-> "server", id |-> OidToString(userId), isAdmin |-> isAdmin,
     iat |-> ClockSeconds(t), exp |-> ClockSeconds(t) + TokenLifetime * 1000,
     nbf |-> NoClaim]

\* generateToken(userId, isAdmin): jwt.sign with the server's secret; the
\* ObjectId is serialised to its string, exp = iat + 24h
generateToken(userId, isAdmin, t) ==
    [sig |-> "server", id |-> OidToString(userId), isAdmin |-> isAdmin,
     iat |-> ClockSeconds(t), exp |-> ClockSeconds(t) + TokenLifetime,
     nbf |-> NoClaim]

\* jwt.sign with an undefined secret throws
\* ("secretOrPrivateKey must have a value")
SignThrows(secret) == ~secret

\* Tokens that verify under the server's secret but were not made by
\* generateToken (another holder of the secret): no id claim, an id that is
\* not an ObjectId, the id of no account, and a not-before claim (with an
\* expiry one second after time 0).
CraftedTokens ==
    { [sig |-> "server", id |-> Undefined, isAdmin |-> FALSE, iat |-> 0,
       exp |-> FarFuture, nbf |-> NoClaim],
      [sig |-> "server", id |-> Str("zz"), isAdmin |-> FALSE, iat |-> 0,
       exp |-> FarFuture, nbf |-> NoClaim],
      [sig |-> "server", id |-> Str("u3"), isAdmin |-> FALSE, iat |-> 0,
       exp |-> FarFuture, nbf |-> NoClaim],
      [sig |-> "server", id |-> Str("u2"), isAdmin |-> FALSE, iat |-> 0,
       exp |-> 1, nbf |-> FarFuture] }

\* Tokens signed with another key: a copy of an admin's claims, fresh and
\* already expired.
ForgedTokens ==
    { [sig |-> "other", id |-> Str("u1"), isAdmin |-> TRUE, iat |-> 0,
       exp |-> FarFuture, nbf |-> NoClaim],
      [sig |-> "other", id |-> Str("u1"), isAdmin |-> TRUE, iat |-> 0,
       exp |-> 0, nbf |-> NoClaim] }

\* jwt.verify(token, secret) of jsonwebtoken: the signature is checked
\* first, then nbf, then exp (expired when clock >= exp).  The result names
\* the error thrown (error.name), or "none" with the decoded payload.
JwtVerify(rest, t) ==
    IF rest.pre # <<>> \/ rest.tok.sig = "none" THEN "JsonWebTokenError"
    ELSE IF rest.tok.sig # "server" THEN "JsonWebTokenError"
    ELSE IF rest.tok.nbf # NoClaim /\ rest.tok.nbf > ClockSeconds(t)
         THEN "NotBeforeError"
    ELSE IF ClockSeconds(t) >= rest.tok.exp THEN "TokenExpiredError"
    ELSE "none"

----------------------------------------------------------------------------
(* The Authorization header.  Its text is the characters of pre followed   *)
(* by the text of tok; the text of a token holds no space.                 *)

BearerPrefix == <<"B", "e", "a", "r", "e", "r", " ">>

NoHeader == [present |-> FALSE, pre |-> <<>>, tok |-> NoToken]
Header(pre, tok) == [present |-> TRUE, pre |-> pre, tok |-> tok]

\* !authHeader : undefined or the empty string
HeaderFalsy(h) == ~h.present \/ (h.pre = <<>> /\ h.tok = NoToken)

\* variant: the prefix compared without regard to the case of its first letter
StartsWithBearer_anyCase(h) ==
    /\ Len(h.pre) >= Len(BearerPrefix)
    /\ h.pre[1] \in {"B", "b"}
    /\ SubSeq(h.pre, 2, Len(BearerPrefix)) = SubSeq(BearerPrefix, 2, Len(BearerPrefix))

\* authHeader.startsWith('Bearer ')
StartsWithBearer(h) ==
    /\ Len(h.pre) >= Len(BearerPrefix)
    /\ SubSeq(h.pre, 1, Len(BearerPrefix)) = BearerPrefix

\* authHeader.substring(7)
Substring7(h) == [pre |-> SubSeq(h.pre, 8, Len(h.pre)), tok |-> h.tok]

\* !token : the empty string
TokenEmpty(rest) == rest.pre = <<>> /\ rest.tok = NoToken

\* Headers a request may carry, besides "Bearer " followed by a token
MalformedHeaders ==
    { NoHeader,
      Header(<<>>, NoToken),
      Header(<<"b", "e", "a", "r", "e", "r", " ">>, CHOOSE k \in ForgedTokens : TRUE),
      Header(BearerPrefix, NoToken),
      Header(BearerPrefix \o <<"x">>, NoToken) }

BearerHeader(k) == Header(BearerPrefix, k)

----------------------------------------------------------------------------
(* Routes: the gates of each route in order, and its handler               *)
(* (routes/auth.js, routes/product.js, routes/category.js, routes/admin.js;*)
(* router.use(verifyToken, verifyAdmin) puts both gates before every       *)
(* /api/admin route).                                                      *)

GT == <<"verifyToken">>
GTA == <<"verifyToken", "verifyAdmin">>
GTU == <<"verifyToken", "handleMulterUpload">>

RouteTable ==
    [ authLogout      |-> [chain |-> GT,  handler |-> "logout"],
      authProfile     |-> [chain |-> GT,  handler |-> "inline"],
      authVerify      |-> [chain |-> GT,  handler |-> "inline"],
      authAdminUsers  |-> [chain |-> GTA, handler |-> "inline"],
      productTest     |-> [chain |-> GTU, handler |-> "inline"],
      productList     |-> [chain |-> <<>>, handler |-> "getAllProducts"],
      productCreate   |-> [chain |-> GTU, handler |-> "createProduct"],
      productUpdate   |-> [chain |-> GTU, handler |-> "updateProduct"],
      productDelete   |-> [chain |-> GT,  handler |-> "deleteProduct"],
      categoryCreate  |-> [chain |-> GTA, handler |-> "createCategory"],
      categoryUpdate  |-> [chain |-> GTA, handler |-> "updateCategory"],
      categoryDelete  |-> [chain |-> GTA, handler |-> "deleteCategory"],
      adminDashboard  |-> [chain |-> GTA, handler |-> "getDashboardStats"],
      adminUsers      |-> [chain |-> GTA, handler |-> "getAllUsers"],
      adminUserRole   |-> [chain |-> GTA, handler |-> "updateUserRole"] ]

Routes == DOMAIN RouteTable
Chain(route) == RouteTable[route].chain
Handler(route) == RouteTable[route].handler

----------------------------------------------------------------------------
(* A request travelling through its chain *)

NoIdentity == [present |-> FALSE, id |-> Undefined, name |-> "", email |-> <<>>,
               isAdmin |-> FALSE, accountStatus |-> ""]

\* the object verifyToken assigns to req.user (auth.js:70-76)
IdentityOf(doc) == [present |-> TRUE, id |-> Oid(doc.id), name |-> doc.name,
                    email |-> doc.email, isAdmin |-> doc.isAdmin,
                    accountStatus |-> doc.accountStatus]

NoBody == [isAdmin |-> "undef", accountStatus |-> "undef"]
NoPending == [isAdmin |-> "keep", accountStatus |-> "keep"]

\* req.params.id and req.body of PUT /api/admin/users/:id
RoleInputs ==
    { [id |-> "u2", body |-> [isAdmin |-> "undef", accountStatus |-> "suspended"]],
      [id |-> "u2", body |-> [isAdmin |-> "undef", accountStatus |-> "active"]],
      [id |-> "u2", body |-> [isAdmin |-> "true", accountStatus |-> "undef"]],
      [id |-> "u1", body |-> [isAdmin |-> "false", accountStatus |-> "pending"]],
      [id |-> "u1", body |-> [isAdmin |-> "true", accountStatus |-> "active"]],
      [id |-> "u3", body |-> [isAdmin |-> "true", accountStatus |-> "undef"]] }

NoInput == [id |-> "", body |-> NoBody]

\* req.params as verifyOwnershipOrAdmin reads it
NoParams == [userId |-> Undefined, id |-> Undefined]

IdleReq == [pc |-> "idle", route |-> "authProfile", header |-> NoHeader,
            input |-> NoInput, params |-> NoParams,
            gi |-> 0, at |-> 0, decodedId |-> Undefined,
            doc |-> NoDoc, fault |-> FALSE, user |-> NoIdentity, status |-> 0, msg |-> "", sent |-> 0,
            trace |-> <<>>, handlerRan |-> FALSE, lookups |-> 0,
            pending |-> NoPending]

\* res.status(code).json({msg}) followed by return: the request is over
Respond(q, code, msg) ==
    [q EXCEPT !.pc = "done", !.status = code, !.msg = msg, !.sent = q.sent + 1]

\* a gate's return res.status(..).json(..): a response and no next()
Reject(q, gate, code, msg) ==
    Respond([q EXCEPT !.trace = Append(q.trace, <<gate, "reject">>)], code, msg)

\* a gate's next()
Passed(q, gate) == [q EXCEPT !.trace = Append(q.trace, <<gate, "next">>)]

----------------------------------------------------------------------------
(* verifyToken (middleware/auth.js:5-105) *)

\* the catch block: error.name decides the answer
VerifyTokenCatch(q, errName) ==
    IF errName = "TokenExpiredError"
    THEN Reject(q, "verifyToken", 401, "Access denied. Token has expired.")
    ELSE IF errName = "JsonWebTokenError"
    THEN Reject(q, "verifyToken", 401, "Access denied. Invalid token.")
    ELSE Reject(q, "verifyToken", 500,
                "Internal server error during authentication.")

\* if (!decoded.id)
PayloadLacksId(tok) == ~Truthy(tok.id)

\* variants of the status test: no test at all, and a test for 'suspended'
AccountNotActive_skipped(doc) == FALSE
AccountNotActive_onlySuspended(doc) == doc.accountStatus = "suspended"

\* if (user.accountStatus !== 'active')
AccountNotActive(doc) == doc.accountStatus # "active"

\* from the header to the call of User.findById, at time t
VerifyTokenSync(q, t) ==
    IF HeaderFalsy(q.header)
    THEN Reject(q, "verifyToken", 401, "Access denied. No token provided.")
    ELSE IF ~StartsWithBearer(q.header)
    THEN Reject(q, "verifyToken", 401, "Access denied. Invalid token format.")
    ELSE LET token == Substring7(q.header) IN
         IF TokenEmpty(token)
         THEN Reject(q, "verifyToken", 401, "Access denied. Token is empty.")
         ELSE LET err == JwtVerify(token, t) IN
              IF err # "none" THEN VerifyTokenCatch([q EXCEPT !.at = t], err)
              ELSE IF PayloadLacksId(token.tok)
              THEN Reject([q EXCEPT !.at = t], "verifyToken", 401,
                          "Access denied. Invalid token payload.")
              ELSE [q EXCEPT !.pc = "verifyToken_await", !.at = t,
                             !.decodedId = token.tok.id,
                             !.lookups = q.lookups + 1]

\* the rest of verifyToken once findById has answered with doc; a gate that
\* passes has <<gate, "next">> last in the trace
VerifyTokenAfterLookup(q, store) ==
    IF ~Castable(q.decodedId) THEN VerifyTokenCatch(q, "CastError")
    ELSE LET user == FindById(store, q.decodedId)
             got == [q EXCEPT !.doc = user] IN
         IF ~user.exists
         THEN Reject(got, "verifyToken", 401, "Access denied. User not found.")
         ELSE IF AccountNotActive(user)
         THEN Reject(got, "verifyToken", 401,
                     "Access denied. Account is not active.")
         ELSE Passed([got EXCEPT !.user = IdentityOf(user)], "verifyToken")

----------------------------------------------------------------------------
(* verifyAdmin (middleware/auth.js:108-127) *)

\* variants: the 403 answer without its return, and a gate that lets every
\* authenticated identity through
VerifyAdmin_noReturn(q) ==
    IF ~q.user.present
    THEN Reject(q, "verifyAdmin", 401, "Access denied. Authentication required.")
    ELSE IF ~q.user.isAdmin
    THEN Passed(Reject(q, "verifyAdmin", 403,
                       "Access denied. Admin privileges required."), "verifyAdmin")
    ELSE Passed(q, "verifyAdmin")

VerifyAdmin_anyUser(q) ==
    IF ~q.user.present
    THEN Reject(q, "verifyAdmin", 401, "Access denied. Authentication required.")
    ELSE Passed(q, "verifyAdmin")

\* variant: the role taken from the isAdmin claim of the token
VerifyAdmin_tokenClaim(q) ==
    IF ~q.user.present
    THEN Reject(q, "verifyAdmin", 401, "Access denied. Authentication required.")
    ELSE IF ~q.header.tok.isAdmin
    THEN Reject(q, "verifyAdmin", 403,
                "Access denied. Admin privileges required.")
    ELSE Passed(q, "verifyAdmin")

VerifyAdmin(q) ==
    IF ~q.user.present
    THEN Reject(q, "verifyAdmin", 401, "Access denied. Authentication required.")
    ELSE IF ~q.user.isAdmin
    THEN Reject(q, "verifyAdmin", 403,
                "Access denied. Admin privileges required.")
    ELSE Passed(q, "verifyAdmin")

----------------------------------------------------------------------------
(* handleMulterUpload (middleware/upload.js:50-99) *)

UploadErrors == {"none", "LIMIT_FILE_SIZE", "LIMIT_FILE_COUNT",
                 "LIMIT_UNEXPECTED_FILE", "MulterOther", "NotImage", "Other"}

\* the callback multer calls once the multipart body is read
UploadCallback(q, err) ==
    IF err = "LIMIT_FILE_SIZE"
    THEN Reject(q, "handleMulterUpload", 400, "File too large")
    ELSE IF err = "LIMIT_FILE_COUNT"
    THEN Reject(q, "handleMulterUpload", 400, "Too many files")
    ELSE IF err = "LIMIT_UNEXPECTED_FILE"
    THEN Reject(q, "handleMulterUpload", 400, "Unexpected field")
    ELSE IF err = "MulterOther"
    THEN Reject(q, "handleMulterUpload", 400, "File upload error")
    ELSE IF err = "NotImage"
    THEN Reject(q, "handleMulterUpload", 400, "Invalid file type")
    ELSE IF err # "none"
    THEN Reject(q, "handleMulterUpload", 500, "Upload error")
    ELSE Passed(q, "handleMulterUpload")

----------------------------------------------------------------------------
(* Dispatch of a chain (express): a gate that calls next() runs the next   *)
(* gate, or the handler after the last gate, in the same synchronous step. *)

\* the route's handler is called.  updateUserRole starts with an awaited
\* User.findById; the other handlers are outside the pipeline and answer.
InvokeHandler(q) ==
    IF Handler(q.route) = "updateUserRole"
    THEN [q EXCEPT !.handlerRan = TRUE, !.pc = "updateUserRole_await",
                   !.lookups = q.lookups + 1]
    ELSE Respond([q EXCEPT !.handlerRan = TRUE], 200, "handled")

CalledNext(q, gate) ==
    q.trace # <<>> /\ q.trace[Len(q.trace)] = <<gate, "next">>

RECURSIVE RunChain(_, _, _)
RunChain(q, i, t) ==
    IF i > Len(Chain(q.route)) THEN InvokeHandler(q)
    ELSE LET gate == Chain(q.route)[i]
             at == [q EXCEPT !.gi = i] IN
         IF gate = "verifyToken" THEN VerifyTokenSync(at, t)
         ELSE IF gate = "verifyAdmin"
         THEN LET a == VerifyAdmin(at) IN
              IF CalledNext(a, gate) THEN RunChain(a, i + 1, t) ELSE a
         ELSE [at EXCEPT !.pc = "upload_await"]

----------------------------------------------------------------------------
(* updateUserRole (adminController, PUT /api/admin/users/:id) *)

BoolOf(x) == x = "true"

\* what user.save() will write: the paths whose assigned value differs
\* from the loaded document
PendingWrite(doc, body) ==
    [isAdmin |-> IF body.isAdmin # "undef" /\ BoolOf(body.isAdmin) # doc.isAdmin
                 THEN body.isAdmin ELSE "keep",
     accountStatus |-> IF body.accountStatus # "undef"
                          /\ body.accountStatus # doc.accountStatus
                       THEN body.accountStatus ELSE "keep"]

\* if (user._id.toString() === req.user.id)
IsOwnAccount(doc, identity) == StrictEq(OidToString(Oid(doc.id)), identity.id)

\* from the answer of User.findById(req.params.id) to the call of save()
UpdateUserRoleAfterFind(q, store) ==
    IF ~Castable(Str(q.input.id)) THEN Respond(q, 500, "Error updating user")
    ELSE LET user == FindById(store, Str(q.input.id)) IN
         IF ~user.exists THEN Respond(q, 404, "User not found")
         ELSE IF IsOwnAccount(user, q.user)
         THEN Respond(q, 400, "Cannot modify your own role")
         ELSE [q EXCEPT !.pc = "updateUserRole_save",
                        !.pending = PendingWrite(user, q.input.body)]

\* the store after save() has written the pending paths of document u
ApplyWrite(store, u, w) ==
    [store EXCEPT
        ![u].isAdmin = IF w.isAdmin = "keep" THEN @ ELSE BoolOf(w.isAdmin),
        ![u].accountStatus = IF w.accountStatus = "keep" THEN @
                             ELSE w.accountStatus]

----------------------------------------------------------------------------
(* Requests a client can send *)

Tokens == issued \cup CraftedTokens \cup ForgedTokens

Headers == MalformedHeaders \cup {BearerHeader(k) : k \in Tokens}

\* Requests are sent to these routes: for every chain of gates in the route
\* table, and for every router, at least one route that has it.
RequestRoutes == {"authProfile", "authAdminUsers", "productList",
                  "productUpdate", "productDelete", "categoryDelete",
                  "adminDashboard", "adminUserRole"}

InputsOf(route) == IF Handler(route) = "updateUserRole" THEN RoleInputs
                   ELSE {NoInput}

----------------------------------------------------------------------------
(* Actions of the gated pipeline *)

\* a request arrives in slot r and runs its chain up to the first await
Arrive(r, route, header, input) ==
    /\ reqs[r].pc \in {"idle", "done"}
    /\ reqs' = [reqs EXCEPT ![r] =
                  RunChain([IdleReq EXCEPT !.pc = "run", !.route = route,
                                           !.header = header, !.input = input],
                           1, now)]
    /\ UNCHANGED <<now, users, loginAttempts, issued, logins, ticks, accepted,
                 registers, products, jwtSecret, server, allowedSince>>

\* User.findById answers verifyToken; the gate finishes and, if it passed,
\* the chain goes on.  accepted records the tokens the gate has let through
\* (history only: no code reads it).
VerifyTokenResume(r) ==
    /\ reqs[r].pc = "verifyToken_await"
    /\ LET q == VerifyTokenAfterLookup(reqs[r], users) IN
       /\ reqs' = [reqs EXCEPT ![r] =
                     IF CalledNext(q, "verifyToken")
                     THEN RunChain(q, q.gi + 1, now) ELSE q]
       /\ accepted' = IF CalledNext(q, "verifyToken")
                      THEN accepted \cup {q.header.tok} ELSE accepted
    /\ UNCHANGED <<now, users, loginAttempts, issued, logins, ticks,
                 registers, products, jwtSecret, server, allowedSince>>

\* the store fails while verifyToken awaits it
VerifyTokenStoreFault(r) ==
    /\ reqs[r].pc = "verifyToken_await"
    /\ reqs' = [reqs EXCEPT ![r] =
                  VerifyTokenCatch([reqs[r] EXCEPT !.fault = TRUE], "MongoError")]
    /\ UNCHANGED <<now, users, loginAttempts, issued, logins, ticks, accepted,
                 registers, products, jwtSecret, server, allowedSince>>

\* multer has read the body and calls back
UploadDone(r, err) ==
    /\ reqs[r].pc = "upload_await"
    /\ LET q == UploadCallback(reqs[r], err) IN
       reqs' = [reqs EXCEPT ![r] =
                  IF CalledNext(q, "handleMulterUpload")
                  THEN RunChain(q, q.gi + 1, now) ELSE q]
    /\ UNCHANGED <<now, users, loginAttempts, issued, logins, ticks, accepted,
                 registers, products, jwtSecret, server, allowedSince>>

\* User.findById answers updateUserRole
UpdateUserRoleFind(r) ==
    /\ reqs[r].pc = "updateUserRole_await"
    /\ reqs' = [reqs EXCEPT ![r] = UpdateUserRoleAfterFind(reqs[r], users)]
    /\ UNCHANGED <<now, users, loginAttempts, issued, logins, ticks, accepted,
                 registers, products, jwtSecret, server, allowedSince>>

\* user.save() is done: the store is written and the handler answers
UpdateUserRoleSave(r) ==
    /\ reqs[r].pc = "updateUserRole_save"
    /\ users' = ApplyWrite(users, reqs[r].input.id, reqs[r].pending)
    /\ reqs' = [reqs EXCEPT ![r] = Respond(reqs[r], 200, "User updated successfully")]
    /\ UNCHANGED <<now, loginAttempts, issued, logins, ticks, accepted,
                 registers, products, jwtSecret, server, allowedSince>>

\* the store fails under updateUserRole: its catch block answers
UpdateUserRoleStoreFault(r) ==
    /\ reqs[r].pc \in {"updateUserRole_await", "updateUserRole_save"}
    /\ reqs' = [reqs EXCEPT ![r] =
                  Respond([reqs[r] EXCEPT !.fault = TRUE], 500, "Error updating user")]
    /\ UNCHANGED <<now, users, loginAttempts, issued, logins, ticks, accepted,
                 registers, products, jwtSecret, server, allowedSince>>

\* time passes
Tick(d) ==
    /\ ticks < MaxTicks
    /\ now' = now + d
    /\ ticks' = ticks + 1
    /\ UNCHANGED <<users, loginAttempts, issued, reqs, logins, accepted,
                 registers, products, jwtSecret, server, allowedSince>>

----------------------------------------------------------------------------
(* Strings of the login request: an email is its sequence of characters *)

UpperToLower == [A |-> "a", B |-> "b", N |-> "n", X |-> "x", Y |-> "y"]

\* String.prototype.toLowerCase
ToLowerCase(w) ==
    [i \in 1..Len(w) |-> IF w[i] \in DOMAIN UpperToLower THEN UpperToLower[w[i]]
                         ELSE w[i]]

Whitespace == {" "}

\* String.prototype.trim
RECURSIVE Trim(_)
Trim(w) ==
    IF w = <<>> THEN w
    ELSE IF w[1] \in Whitespace THEN Trim(Tail(w))
    ELSE IF w[Len(w)] \in Whitespace THEN Trim(SubSeq(w, 1, Len(w) - 1))
    ELSE w

\* validateEmail: /^[^\s@]+@[^\s@]+\.[^\s@]+$/
validateEmail(w) ==
    /\ \A i \in 1..Len(w) : w[i] \notin Whitespace
    /\ \E i \in 2..Len(w) :
          /\ w[i] = "@"
          /\ \A j \in 1..Len(w) : w[j] = "@" => j = i
          /\ \E j \in (i + 2)..(Len(w) - 1) : w[j] = "."

----------------------------------------------------------------------------
(* Login rate limiter (authController.js:21-46) *)

NoEntry == [present |-> FALSE, count |-> 0, firstAttempt |-> 0]
Entry(c, f) == [present |-> TRUE, count |-> c, firstAttempt |-> f]

\* if (now - attempts.firstAttempt > RATE_LIMIT_WINDOW)
WindowExpired(t, attempts) == t - attempts.firstAttempt > RATE_LIMIT_WINDOW

\* variant: the limit compared with > instead of >=
LimitReached_offByOne(attempts) == attempts.count > MAX_LOGIN_ATTEMPTS

\* if (attempts.count >= MAX_LOGIN_ATTEMPTS)
LimitReached(attempts) == attempts.count >= MAX_LOGIN_ATTEMPTS

\* variant: a denied attempt is counted too
checkRateLimit_countsDenied(map, identifier, t) ==
    LET attempts == IF map[identifier].present THEN map[identifier]
                    ELSE Entry(0, t) IN
    IF WindowExpired(t, attempts)
    THEN [allowed |-> TRUE, map |-> [map EXCEPT ![identifier] = Entry(1, t)],
          branch |-> "reset"]
    ELSE IF LimitReached(attempts)
    THEN [allowed |-> FALSE, branch |-> "denied",
          map |-> [map EXCEPT ![identifier] =
                     Entry(attempts.count + 1, attempts.firstAttempt)]]
    ELSE [allowed |-> TRUE, branch |-> "counted",
          map |-> [map EXCEPT ![identifier] =
                     Entry(attempts.count + 1, attempts.firstAttempt)]]

\* variant: the entry is written with the count read, not the count raised
checkRateLimit_staleCount(map, identifier, t) ==
    LET attempts == IF map[identifier].present THEN map[identifier]
                    ELSE Entry(0, t) IN
    IF WindowExpired(t, attempts)
    THEN [allowed |-> TRUE, map |-> [map EXCEPT ![identifier] = Entry(1, t)],
          branch |-> "reset"]
    ELSE IF LimitReached(attempts)
    THEN [allowed |-> FALSE, map |-> map, branch |-> "denied"]
    ELSE [allowed |-> TRUE, branch |-> "counted",
          map |-> [map EXCEPT ![identifier] =
                     Entry(IF map[identifier].present THEN attempts.count ELSE 1,
                           attempts.firstAttempt)]]

\* variant: a rolling window, every allowed attempt restarts the window
checkRateLimit_rolling(map, identifier, t) ==
    LET attempts == IF map[identifier].present THEN map[identifier]
                    ELSE Entry(0, t) IN
    IF WindowExpired(t, attempts)
    THEN [allowed |-> TRUE, map |-> [map EXCEPT ![identifier] = Entry(1, t)],
          branch |-> "reset"]
    ELSE IF LimitReached(attempts)
    THEN [allowed |-> FALSE, map |-> map, branch |-> "denied"]
    ELSE [allowed |-> TRUE, branch |-> "counted",
          map |-> [map EXCEPT ![identifier] = Entry(attempts.count + 1, t)]]

\* checkRateLimit(identifier) at time t: the answer and the map afterwards
\* (branch names the path taken, for the properties only)
checkRateLimit(map, identifier, t) ==
    LET attempts == IF map[identifier].present THEN map[identifier]
                    ELSE Entry(0, t) IN
    IF WindowExpired(t, attempts)
    THEN [allowed |-> TRUE, map |-> [map EXCEPT ![identifier] = Entry(1, t)],
          branch |-> "reset"]
    ELSE IF LimitReached(attempts)
    THEN [allowed |-> FALSE, map |-> map, branch |-> "denied"]
    ELSE [allowed |-> TRUE, branch |-> "counted",
          map |-> [map EXCEPT ![identifier] =
                     Entry(attempts.count + 1, attempts.firstAttempt)]]

\* variant: the entry is kept
ClearRateLimit_kept(map, identifier) == map

\* loginAttempts.delete(identifier)
ClearRateLimit(map, identifier) == [map EXCEPT ![identifier] = NoEntry]

----------------------------------------------------------------------------
(* login (authController.js:173-262) *)

\* req.body.email, req.body.password and req.ip of the login requests sent
LoginInputs ==
    { [email |-> <<"a", "@", "x", ".", "y">>, password |-> "Pw1", ip |-> "ip1"],
      [email |-> <<"a", "@", "x", ".", "y">>, password |-> "bad", ip |-> "ip1"],
      [email |-> <<"A", "@", "X", ".", "y">>, password |-> "bad", ip |-> "ip1"],
      [email |-> <<"n", "@", "x", ".", "y">>, password |-> "bad", ip |-> "ip2"],
      [email |-> <<"a", "x", ".", "y">>, password |-> "Pw1", ip |-> "ip1"],
      [email |-> <<"a", "@", "x", ".", "y">>, password |-> "", ip |-> "ip1"] }

\* `${email.toLowerCase()}-${clientIP}`
Identifier(email, ip) == <<ToLowerCase(email), ip>>

\* the identifiers of the requests that reach the rate limiter
Keys == {Identifier(i.email, i.ip) :
            i \in {j \in LoginInputs : j.password # "" /\ validateEmail(j.email)}}

IdleLogin == [pc |-> "idle", email |-> <<>>, password |-> "", ip |-> "",
              identifier |-> <<<<>>, "">>, user |-> NoDoc, status |-> 0,
              msg |-> "", queries |-> 0, token |-> NoToken, branch |-> ""]

LoginRespond(q, code, msg) == [q EXCEPT !.pc = "done", !.status = code, !.msg = msg]

\* from the request to the call of User.findOne, at time t with the map
\* of the rate limiter: the request afterwards and the map afterwards
LoginSync(q, map, t) ==
    IF q.email = <<>> \/ q.password = ""
    THEN [req |-> LoginRespond(q, 400, "Email and password are required"),
          map |-> map]
    ELSE IF ~validateEmail(q.email)
    THEN [req |-> LoginRespond(q, 400, "Invalid email format"), map |-> map]
    ELSE LET identifier == Identifier(q.email, q.ip)
             rl == checkRateLimit(map, identifier, t)
             at == [q EXCEPT !.identifier = identifier, !.branch = rl.branch] IN
         IF ~rl.allowed
         THEN [req |-> LoginRespond(at, 429, "Too many login attempts"),
               map |-> rl.map]
         ELSE [req |-> [at EXCEPT !.pc = "findOne_await",
                                  !.queries = q.queries + 1],
               map |-> rl.map]

\* from the answer of User.findOne to the call of bcrypt.compare
LoginAfterFind(q, store) ==
    LET user == FindOneByEmail(store, Trim(ToLowerCase(q.email))) IN
    IF ~user.exists THEN LoginRespond(q, 401, "Invalid credentials")
    ELSE [q EXCEPT !.pc = "compare_await", !.user = user]

\* a login request arrives.  allowedSince counts, per key, the checks the
\* rate limiter has allowed since the key's entry was created (history only:
\* no code reads it).
LoginStart(l, in) ==
    /\ logins[l].pc \in {"idle", "done"}
    /\ LET res == LoginSync([IdleLogin EXCEPT !.email = in.email,
                                              !.password = in.password,
                                              !.ip = in.ip],
                            loginAttempts, now) IN
       /\ logins' = [logins EXCEPT ![l] = res.req]
       /\ loginAttempts' = res.map
       /\ allowedSince' =
             IF res.req.branch \in {"reset", "counted"}
             THEN [allowedSince EXCEPT ![res.req.identifier] =
                     IF res.req.branch = "reset" THEN 1 ELSE @ + 1]
             ELSE allowedSince
    /\ UNCHANGED <<now, users, issued, reqs, ticks, accepted,
                 registers, products, jwtSecret, server>>

\* User.findOne answers
LoginFound(l) ==
    /\ logins[l].pc = "findOne_await"
    /\ logins' = [logins EXCEPT ![l] = LoginAfterFind(logins[l], users)]
    /\ UNCHANGED <<now, users, loginAttempts, issued, reqs, ticks, accepted,
                 registers, products, jwtSecret, server, allowedSince>>

\* bcrypt.compare answers: a wrong password is refused; a right one clears
\* the rate limiter's entry, and a token is signed and sent, or signing
\* throws into the catch block
LoginCompared(l) ==
    /\ logins[l].pc = "compare_await"
    /\ LET q == logins[l] IN
       IF ~BcryptCompare(q.password, q.user.password)
       THEN /\ logins' = [logins EXCEPT ![l] =
                            LoginRespond(q, 401, "Invalid credentials")]
            /\ UNCHANGED <<loginAttempts, issued, allowedSince>>
       ELSE LET token == generateToken(Oid(q.user.id), q.user.isAdmin, now) IN
            /\ loginAttempts' = ClearRateLimit(loginAttempts, q.identifier)
            /\ allowedSince' = [allowedSince EXCEPT ![q.identifier] = 0]
            /\ IF SignThrows(jwtSecret)
               THEN /\ UNCHANGED issued
                    /\ logins' = [logins EXCEPT ![l] =
                                    LoginRespond(q, 500, "Internal server error")]
               ELSE /\ issued' = issued \cup {token}
                    /\ logins' = [logins EXCEPT ![l] =
                                    [LoginRespond(q, 200, "Login successful")
                                        EXCEPT !.token = token]]
    /\ UNCHANGED <<now, users, reqs, ticks, accepted,
                 registers, products, jwtSecret, server>>

\* the store fails under login: its catch block answers 500
LoginStoreFault(l) ==
    /\ logins[l].pc = "findOne_await"
    /\ logins' = [logins EXCEPT ![l] =
                    LoginRespond(logins[l], 500, "Internal server error")]
    /\ UNCHANGED <<now, users, loginAttempts, issued, reqs, ticks, accepted,
                 registers, products, jwtSecret, server, allowedSince>>


----------------------------------------------------------------------------
(* register (authController.js:65-171) and the start of the process        *)
(* (server.js: mongoose.connect(..).then(app.listen), no other test)       *)

LowerChars == {"a", "b", "c", "d", "e", "f", "g", "h", "i", "j", "k", "l", "m",
               "n", "o", "p", "q", "r", "s", "t", "u", "v", "w", "x", "y", "z"}
UpperChars == {"A", "B", "C", "D", "E", "F", "G", "H", "I", "J", "K", "L", "M",
               "N", "O", "P", "Q", "R", "S", "T", "U", "V", "W", "X", "Y", "Z"}
DigitChars == {"0", "1", "2", "3", "4", "5", "6", "7", "8", "9"}
SpecialChars == {"@", "$", "!", "%", "*", "?", "&"}

\* validatePassword:
\* /^(?=.*[a-z])(?=.*[A-Z])(?=.*\d)(?=.*[@$!%*?&])[A-Za-z\d@$!%*?&]{8,}$/
validatePassword(w) ==
    /\ \E i \in 1..Len(w) : w[i] \in LowerChars
    /\ \E i \in 1..Len(w) : w[i] \in UpperChars
    /\ \E i \in 1..Len(w) : w[i] \in DigitChars
    /\ \E i \in 1..Len(w) : w[i] \in SpecialChars
    /\ \A i \in 1..Len(w) :
          w[i] \in LowerChars \cup UpperChars \cup DigitChars \cup SpecialChars
    /\ Len(w) >= 8

\* validateName: name && name.trim().length >= 2 && name.trim().length <= 50
validateName(w) == w # <<>> /\ Len(Trim(w)) >= 2 /\ Len(Trim(w)) <= 50

\* the text of a sequence of characters
RECURSIVE Text(_)
Text(w) == IF w = <<>> THEN "" ELSE w[1] \o Text(Tail(w))

StrongPassword == <<"P", "a", "s", "s", "w", "0", "r", "d", "!">>

\* req.body of the register requests sent
RegisterInputs ==
    { [name |-> <<"N", "o">>, email |-> <<"n", "@", "x", ".", "y">>, password |-> StrongPassword,
        isAdmin |-> "undef"],
      [name |-> <<"N", "o">>, email |-> <<"n", "@", "x", ".", "y">>, password |-> StrongPassword,
        isAdmin |-> "true"],
      [name |-> <<"N", "o">>, email |-> <<"N", "@", "x", ".", "y">>, password |-> StrongPassword,
        isAdmin |-> "undef"],
      [name |-> <<"A", "n">>, email |-> <<"A", "@", "x", ".", "y">>, password |-> StrongPassword,
        isAdmin |-> "undef"],
      [name |-> <<"N", " ">>, email |-> <<"n", "@", "x", ".", "y">>, password |-> StrongPassword,
        isAdmin |-> "undef"],
      [name |-> <<"N", "o">>, email |-> <<"n", "x", ".", "y">>, password |-> StrongPassword,
        isAdmin |-> "undef"],
      [name |-> <<"N", "o">>, email |-> <<"n", "@", "x", ".", "y">>, password |-> <<"p", "w">>,
        isAdmin |-> "undef"],
      [name |-> <<"N", "o">>, email |-> <<"n", "@", "x", ".", "y">>, password |-> <<>>,
        isAdmin |-> "undef"] }

IdleRegister == [pc |-> "idle", name |-> <<>>, email |-> <<>>, password |-> <<>>,
                 isAdmin |-> "undef",
                 hashed |-> "", status |-> 0, msg |-> "", created |-> "",
                 token |-> NoToken, signFailed |-> FALSE, lostRace |-> FALSE]

RegisterRespond(q, code, msg) == [q EXCEPT !.pc = "done", !.status = code, !.msg = msg]

\* the email register looks up and stores
NormalizedEmail(email) == Trim(ToLowerCase(email))

\* from the request to the call of User.findOne
RegisterSync(q) ==
    IF q.name = <<>> \/ q.email = <<>> \/ q.password = <<>>
    THEN RegisterRespond(q, 400, "All fields are required")
    ELSE IF ~validateName(q.name)
    THEN RegisterRespond(q, 400, "Invalid name format")
    ELSE IF ~validateEmail(q.email)
    THEN RegisterRespond(q, 400, "Invalid email format")
    ELSE IF ~validatePassword(q.password)
    THEN RegisterRespond(q, 400, "Password does not meet security requirements")
    ELSE [q EXCEPT !.pc = "findOne_await"]

\* from the answer of User.findOne to the call of bcrypt.hash
RegisterAfterFind(q, store) ==
    IF FindOneByEmail(store, NormalizedEmail(q.email)).exists
    THEN RegisterRespond(q, 409, "User already exists")
    ELSE [q EXCEPT !.pc = "hash_await"]

\* the unique index on email of the users collection: an insert of an email
\* the collection holds fails with the duplicate-key error (code 11000)
DuplicateKey(store, email) ==
    \E u \in UserIds : store[u].exists /\ store[u].email = email

\* the accountStatus a new document gets from the schema
DefaultAccountStatus == "active"

\* the _id of the next document
FreshId(store) == CHOOSE u \in UserIds : ~store[u].exists

\* variant: the role of the new account taken from req.body.isAdmin
NewUser_isAdminFromBody(q, store) ==
    Doc(FreshId(store), Text(Trim(q.name)), NormalizedEmail(q.email), q.hashed,
        BoolOf(q.isAdmin), DefaultAccountStatus)

\* new User({name, email, password, isAdmin: false}): req.body.isAdmin is
\* never read
NewUser(q, store) ==
    Doc(FreshId(store), Text(Trim(q.name)), NormalizedEmail(q.email), q.hashed,
        FALSE, DefaultAccountStatus)

\* variant: the duplicate-key error is answered like any other error
RegisterCatch_noDuplicateCase(q, code) ==
    RegisterRespond(q, 500, "Internal server error")

\* the catch block of register: error.code 11000 is answered 409
RegisterCatch(q, code) ==
    IF code = 11000 THEN RegisterRespond(q, 409, "Email already exists")
    ELSE RegisterRespond(q, 500, "Internal server error")

\* the process starts: the database connects and the server listens
Startup ==
    /\ server = "starting"
    /\ server' = "listening"
    /\ UNCHANGED <<now, users, loginAttempts, issued, reqs, logins, ticks,
                   accepted, registers, products, jwtSecret, allowedSince>>

\* the database does not connect: process.exit(1)
StartupFails ==
    /\ server = "starting"
    /\ server' = "exited"
    /\ UNCHANGED <<now, users, loginAttempts, issued, reqs, logins, ticks,
                   accepted, registers, products, jwtSecret, allowedSince>>

\* a register request arrives
RegisterArrive(g, in) ==
    /\ server = "listening"
    /\ registers[g].pc \in {"idle", "done"}
    /\ registers' = [registers EXCEPT ![g] =
                       RegisterSync([IdleRegister EXCEPT !.name = in.name,
                                                         !.email = in.email,
                                                         !.password = in.password,
                                                         !.isAdmin = in.isAdmin])]
    /\ UNCHANGED <<now, users, loginAttempts, issued, reqs, logins, ticks,
                   accepted, products, jwtSecret, server, allowedSince>>

\* User.findOne answers
RegisterFound(g) ==
    /\ registers[g].pc = "findOne_await"
    /\ registers' = [registers EXCEPT ![g] = RegisterAfterFind(registers[g], users)]
    /\ UNCHANGED <<now, users, loginAttempts, issued, reqs, logins, ticks,
                   accepted, products, jwtSecret, server, allowedSince>>

\* bcrypt.hash answers; user.save() is called
RegisterHashed(g) ==
    /\ registers[g].pc = "hash_await"
    /\ registers' = [registers EXCEPT ![g] =
                       [registers[g] EXCEPT !.pc = "save_await",
                           !.hashed = BcryptHash(Text(registers[g].password))]]
    /\ UNCHANGED <<now, users, loginAttempts, issued, reqs, logins, ticks,
                   accepted, products, jwtSecret, server, allowedSince>>

\* user.save() answers: a duplicate-key error goes to the catch block;
\* otherwise the account is stored, then the token is signed and sent, or
\* signing throws into the catch block
RegisterSaved(g) ==
    /\ registers[g].pc = "save_await"
    /\ LET q == registers[g] IN
       IF DuplicateKey(users, NormalizedEmail(q.email))
       THEN /\ registers' = [registers EXCEPT ![g] =
                               RegisterCatch([q EXCEPT !.lostRace = TRUE], 11000)]
            /\ UNCHANGED <<users, issued>>
       ELSE LET user == NewUser(q, users)
                made == [q EXCEPT !.created = user.id] IN
            /\ users' = [users EXCEPT ![user.id] = user]
            /\ IF SignThrows(jwtSecret)
               THEN /\ registers' = [registers EXCEPT ![g] =
                                       RegisterCatch([made EXCEPT !.signFailed = TRUE], 0)]
                    /\ UNCHANGED issued
               ELSE LET token == generateToken(Oid(user.id), user.isAdmin, now) IN
                    /\ issued' = issued \cup {token}
                    /\ registers' = [registers EXCEPT ![g] =
                          [RegisterRespond(made, 201, "User created successfully")
                              EXCEPT !.token = token]]
    /\ UNCHANGED <<now, loginAttempts, reqs, logins, ticks, accepted,
                   products, jwtSecret, server, allowedSince>>

\* the store fails under register: the catch block answers 500
RegisterStoreFault(g) ==
    /\ registers[g].pc \in {"findOne_await", "save_await"}
    /\ registers' = [registers EXCEPT ![g] = RegisterCatch(registers[g], 0)]
    /\ UNCHANGED <<now, users, loginAttempts, issued, reqs, logins, ticks,
                   accepted, products, jwtSecret, server, allowedSince>>

----------------------------------------------------------------------------
(* Products (productController: Product documents with their creator) *)

ProductIds == {"p1", "p2"}

NoProduct == [exists |-> FALSE, id |-> "", createdBy |-> "", name |-> ""]

\* one product created by the second (non-admin) account
InitProducts ==
    [p \in ProductIds |->
        IF p = "p1" THEN [exists |-> TRUE, id |-> "p1", createdBy |-> "u2",
                          name |-> "n0"]
        ELSE NoProduct]

----------------------------------------------------------------------------
(* Initial state: both accounts exist and hold a token issued at time 0,   *)
(* nothing is in flight, the rate limiter is empty.                        *)

Init ==
    /\ now = 0
    /\ ticks = 0
    /\ users = InitUsers
    /\ loginAttempts = [k \in Keys |-> NoEntry]
    /\ issued = {generateToken(Oid(u), InitUsers[u].isAdmin, 0) :
                    u \in {v \in UserIds : InitUsers[v].exists}}
    /\ reqs = [r \in Reqs |-> IdleReq]
    /\ logins = [l \in Logins |-> IdleLogin]
    /\ accepted = {}
    /\ registers = [g \in Regs |-> IdleRegister]
    /\ products = InitProducts
    /\ jwtSecret = TRUE
    /\ server = "listening"
    /\ allowedSince = [k \in Keys |-> 0]

\* The clock (milliseconds) first advances to the last millisecond of the
\* life of a token issued at 0, then millisecond by millisecond.
GateDelta(i) == IF i = 0 THEN TokenLifetime * 1000 - 1 ELSE 1

Next ==
    \/ \E r \in Reqs, route \in RequestRoutes, header \in Headers :
          \E input \in InputsOf(route) : Arrive(r, route, header, input)
    \/ \E r \in Reqs : VerifyTokenResume(r)
    \/ \E r \in Reqs : VerifyTokenStoreFault(r)
    \/ \E r \in Reqs, err \in UploadErrors : UploadDone(r, err)
    \/ \E r \in Reqs : UpdateUserRoleFind(r)
    \/ \E r \in Reqs : UpdateUserRoleSave(r)
    \/ \E r \in Reqs : UpdateUserRoleStoreFault(r)
    \/ Tick(GateDelta(ticks))

Spec == Init /\ [][Next]_vars

\* The clock of the login requests first advances by exactly one rate-limit
\* window, then millisecond by millisecond.
LoginDelta(i) == IF i = 0 THEN RATE_LIMIT_WINDOW ELSE 1

NextLogin ==
    \/ \E l \in Logins, in \in LoginInputs : LoginStart(l, in)
    \/ \E l \in Logins : LoginFound(l)
    \/ \E l \in Logins : LoginCompared(l)
    \/ \E l \in Logins : LoginStoreFault(l)
    \/ Tick(LoginDelta(ticks))

SpecLogin == Init /\ [][NextLogin]_vars

----------------------------------------------------------------------------
(* Properties of the gated pipeline *)

\* the gate has answered or passed for request q
GateRan(q, gate) == \E i \in 1..Len(q.trace) : q.trace[i][1] = gate
GatePassed(q, gate) == \E i \in 1..Len(q.trace) : q.trace[i] = <<gate, "next">>
GateRejected(q, gate) == \E i \in 1..Len(q.trace) : q.trace[i] = <<gate, "reject">>

\* the header is exactly "Bearer " followed by one token
CarriesToken(h) ==
    h.present /\ h.pre = <<"B", "e", "a", "r", "e", "r", " ">> /\ h.tok.sig # "none"

\* the header's first seven characters are "Bearer "
HasBearerPrefix(h) ==
    /\ Len(h.pre) >= 7
    /\ h.pre[1] = "B" /\ h.pre[2] = "e" /\ h.pre[3] = "a" /\ h.pre[4] = "r"
    /\ h.pre[5] = "e" /\ h.pre[6] = "r" /\ h.pre[7] = " "

HeaderText(h) == IF h.present THEN <<h.pre, h.tok>> ELSE <<>>

\* C1: verifyToken calls next and attaches an identity only for a header
\* "Bearer <token>" whose token is signed by the server, unexpired when
\* verified, carries an id, whose id resolved to an account and whose account
\* was active when looked up; otherwise neither next nor an identity.
C1_AcceptOnlyValidActive ==
    \A r \in Reqs :
        LET q == reqs[r] IN
        (GatePassed(q, "verifyToken") \/ q.user.present) =>
            /\ GatePassed(q, "verifyToken") /\ q.user.present
            /\ CarriesToken(q.header)
            /\ q.header.tok.sig = "server"
            /\ ClockSeconds(q.at) < q.header.tok.exp
            /\ q.header.tok.id.t = "str" /\ q.header.tok.id.v # ""
            /\ q.doc.exists /\ q.doc.id = q.header.tok.id.v
            /\ users[q.doc.id].exists
            /\ q.doc.accountStatus = "active"
            /\ q.user.id = Oid(q.doc.id) /\ q.user.isAdmin = q.doc.isAdmin
            /\ q.user.accountStatus = "active"

C1_Witness ==
    \E r \in Reqs :
        /\ GatePassed(reqs[r], "verifyToken") /\ reqs[r].user.present
        /\ reqs[r].pc = "done"

\* C3: a request carrying a token made by generateToken, correctly signed
\* and unexpired, whose account is found non-active by the lookup, is
\* rejected with 401 "account not active" and gets no identity, also when
\* the same token was accepted before.
C3_InactiveRejectedEveryTime ==
    \A r \in Reqs :
        LET q == reqs[r] IN
        ( /\ GateRan(q, "verifyToken")
          /\ CarriesToken(q.header)
          /\ q.header.tok \in issued
          /\ ClockSeconds(q.at) < q.header.tok.exp
          /\ q.doc.exists
          /\ q.doc.accountStatus # "active" ) =>
            /\ q.pc = "done" /\ q.status = 401
            /\ q.msg = "Access denied. Account is not active."
            /\ ~q.user.present /\ ~q.handlerRan
            /\ ~GatePassed(q, "verifyToken")

C3_Witness ==
    \E r \in Reqs :
        /\ reqs[r].header.tok \in accepted
        /\ reqs[r].header.tok \in issued
        /\ reqs[r].status = 401
        /\ reqs[r].msg = "Access denied. Account is not active."
        /\ users[reqs[r].doc.id].accountStatus # "active"

\* C4: a missing (or empty) header, a header without the exact prefix
\* "Bearer ", and a header that is only the prefix are rejected with 401,
\* with the three reasons tested in this order, without any store lookup.
C4_MalformedHeaderRejected ==
    \A r \in Reqs :
        LET q == reqs[r]
            h == q.header IN
        (q.pc # "idle" /\ Len(Chain(q.route)) > 0 /\ Chain(q.route)[1] = "verifyToken") =>
            /\ (HeaderText(h) \in {<<>>, <<<<>>, NoToken>>}) =>
                  /\ q.status = 401 /\ q.lookups = 0 /\ q.pc = "done"
                  /\ q.msg = "Access denied. No token provided."
            /\ (HeaderText(h) \notin {<<>>, <<<<>>, NoToken>>} /\ ~HasBearerPrefix(h)) =>
                  /\ q.status = 401 /\ q.lookups = 0 /\ q.pc = "done"
                  /\ q.msg = "Access denied. Invalid token format."
            /\ (h.present /\ Len(h.pre) = 7 /\ HasBearerPrefix(h) /\ h.tok = NoToken) =>
                  /\ q.status = 401 /\ q.lookups = 0 /\ q.pc = "done"
                  /\ q.msg = "Access denied. Token is empty."

C4_Witness ==
    \E r \in Reqs :
        /\ reqs[r].header.present /\ reqs[r].header.pre # <<>>
        /\ ~HasBearerPrefix(reqs[r].header)
        /\ reqs[r].header.tok.sig # "none"
        /\ reqs[r].status = 401 /\ reqs[r].lookups = 0

\* C5 (as claimed): verifyToken answers 500 only when the store failed; every
\* rejection that comes from the token or the account is a 401.
C5_ServerErrorOnlyOnFault ==
    \A r \in Reqs :
        LET q == reqs[r] IN
        GateRejected(q, "verifyToken") =>
            /\ q.status \in {401, 500}
            /\ (q.status = 500) <=> q.fault

\* C6 (as claimed): a token signed with another key, or presented at or
\* after its expiry, is rejected with 401; "token expired" for the expired
\* token of the server, "invalid token" for the token of another key.
C6_ForgedOrExpiredIs401 ==
    \A r \in Reqs :
        LET q == reqs[r]
            k == q.header.tok IN
        ( /\ GateRan(q, "verifyToken") /\ CarriesToken(q.header)
          /\ (k.sig = "other" \/ ClockSeconds(q.at) >= k.exp) ) =>
            /\ GateRejected(q, "verifyToken") /\ q.status = 401
            /\ k.sig = "other" => q.msg = "Access denied. Invalid token."
            /\ k.sig = "server" => q.msg = "Access denied. Token has expired."

\* C10: the handler runs only after every gate of the route's chain called
\* next, in order; a gate that rejects is the last thing that runs, sends
\* the one response of the request and does not call next.
C10_NoPartialSuccess ==
    \A r \in Reqs :
        LET q == reqs[r]
            chain == Chain(q.route) IN
        /\ Len(q.trace) <= Len(chain)
        /\ \A i \in 1..Len(q.trace) : q.trace[i][1] = chain[i]
        /\ q.handlerRan =>
              /\ Len(q.trace) = Len(chain)
              /\ \A i \in 1..Len(chain) : q.trace[i] = <<chain[i], "next">>
        /\ \A i \in 1..Len(q.trace) :
              q.trace[i][2] = "reject" =>
                  /\ i = Len(q.trace)
                  /\ q.sent = 1 /\ q.pc = "done" /\ ~q.handlerRan
        /\ q.sent <= 1

C10_Witness ==
    \E r \in Reqs :
        /\ reqs[r].trace = <<<<"verifyToken", "next">>, <<"verifyAdmin", "reject">>>>
        /\ reqs[r].sent = 1 /\ ~reqs[r].handlerRan

----------------------------------------------------------------------------
(* verifyAdmin on its own: the gate applied to a request with any identity *)
(* or none, as when it is mounted without verifyToken before it.           *)

Identities ==
    {NoIdentity} \cup
    {IdentityOf(Doc(u, "name", <<"e", "@", "x", ".", "y">>, "", a, st)) :
        u \in UserIds, a \in BOOLEAN, st \in Statuses}

AdminRoutes == {rt \in Routes : \E i \in 1..Len(Chain(rt)) : Chain(rt)[i] = "verifyAdmin"}

GateIndex(rt, gate) == CHOOSE i \in 1..Len(Chain(rt)) : Chain(rt)[i] = gate

InitVerifyAdmin ==
    /\ now = 0
    /\ ticks = 0
    /\ users = InitUsers
    /\ loginAttempts = [k \in Keys |-> NoEntry]
    /\ issued = {}
    /\ accepted = {}
    /\ logins = [l \in Logins |-> IdleLogin]
    /\ registers = [g \in Regs |-> IdleRegister]
    /\ products = InitProducts
    /\ jwtSecret = TRUE
    /\ server = "listening"
    /\ allowedSince = [k \in Keys |-> 0]
    /\ reqs \in [Reqs -> {[IdleReq EXCEPT !.pc = "run", !.route = rt, !.user = id] :
                              rt \in AdminRoutes, id \in Identities}]

\* express calls verifyAdmin for request r
ApplyVerifyAdmin(r) ==
    /\ reqs[r].pc = "run"
    /\ reqs' = [reqs EXCEPT ![r] =
                  RunChain(reqs[r], GateIndex(reqs[r].route, "verifyAdmin"), now)]
    /\ UNCHANGED <<now, users, loginAttempts, issued, logins, ticks, accepted,
                 registers, products, jwtSecret, server, allowedSince>>

NextVerifyAdmin == \E r \in Reqs : ApplyVerifyAdmin(r)

SpecVerifyAdmin == InitVerifyAdmin /\ [][NextVerifyAdmin]_vars

\* C9: verifyAdmin answers 401 without an identity, 403 for an identity
\* that is not admin, calls next for an admin, and never changes req.user.
C9_AdminGate ==
    [][\A r \in Reqs :
         (reqs[r].pc = "run" /\ reqs'[r] # reqs[r]) =>
            LET q == reqs'[r]
                id == reqs[r].user IN
            /\ q.user = id
            /\ ~id.present =>
                  /\ q.status = 401 /\ q.sent = 1 /\ ~q.handlerRan
                  /\ q.trace = <<<<"verifyAdmin", "reject">>>>
            /\ (id.present /\ ~id.isAdmin) =>
                  /\ q.status = 403 /\ q.sent = 1 /\ ~q.handlerRan
                  /\ q.trace = <<<<"verifyAdmin", "reject">>>>
            /\ (id.present /\ id.isAdmin) =>
                  /\ q.trace = <<<<"verifyAdmin", "next">>>>
                  /\ q.handlerRan]_vars

C9_Witness ==
    \E r \in Reqs :
        /\ reqs[r].user.present /\ ~reqs[r].user.isAdmin
        /\ reqs[r].status = 403
        /\ reqs[r].trace = <<<<"verifyAdmin", "reject">>>>

----------------------------------------------------------------------------
(* Properties of the login rate limiter *)

\* login slot l takes a new request in this step
ArrivalOf(l) == logins[l].pc \in {"idle", "done"} /\ logins'[l] # logins[l]

\* q is a login attempt for key k: a password is given, and the email,
\* lower-cased, and the address are those of the key
AttemptFor(q, k) ==
    /\ q.pc # "idle" /\ q.password # ""
    /\ ToLowerCase(q.email) = k[1] /\ q.ip = k[2]

\* C2: when a key's entry holds 5 attempts and the window (15 minutes from
\* the first) is not over, a login attempt for the key is answered 429
\* whatever its password, the store is not queried and the entry is kept.
C2_SixthAttemptDenied ==
    [][\A l \in Logins, k \in Keys :
         ( /\ ArrivalOf(l) /\ AttemptFor(logins'[l], k)
           /\ loginAttempts[k].present
           /\ loginAttempts[k].count >= 5
           /\ now - loginAttempts[k].firstAttempt <= 15 * 60 * 1000 ) =>
            /\ logins'[l].pc = "done" /\ logins'[l].status = 429
            /\ logins'[l].queries = 0
            /\ logins'[l].token = NoToken
            /\ loginAttempts' = loginAttempts]_vars

C2_Witness ==
    \E l \in Logins, k \in Keys :
        /\ AttemptFor(logins[l], k) /\ logins[l].branch = "denied"
        /\ logins[l].password = "Pw1"
        /\ users["u1"].password = BcryptHash("Pw1") /\ users["u1"].email = k[1]
        /\ logins[l].status = 429 /\ logins[l].queries = 0
        /\ loginAttempts[k].count = 5

\* C7: a successful login leaves no entry for its key; an attempt that
\* finds no entry is allowed and starts a window with count 1 at the time
\* of the attempt; and nothing but an attempt for the key creates an entry.
C7_SuccessClearsEntry ==
    [][\A k \in Keys :
         /\ \A l \in Logins :
               ( /\ logins[l].pc = "compare_await" /\ logins'[l].status = 200
                 /\ AttemptFor(logins'[l], k) ) => ~loginAttempts'[k].present
         /\ \A l \in Logins :
               ( /\ ArrivalOf(l) /\ AttemptFor(logins'[l], k)
                 /\ ~loginAttempts[k].present ) =>
                  /\ logins'[l].pc = "findOne_await"
                  /\ loginAttempts'[k] = [present |-> TRUE, count |-> 1,
                                          firstAttempt |-> now]
         /\ (~loginAttempts[k].present /\ loginAttempts'[k].present) =>
               \E l \in Logins : ArrivalOf(l) /\ AttemptFor(logins'[l], k)]_vars

C7_Witness ==
    \E l \in Logins, k \in Keys, tok \in issued :
        /\ tok.iat > 0 /\ tok.id = Str("u1") /\ k[1] = users["u1"].email
        /\ AttemptFor(logins[l], k) /\ logins[l].branch = "counted"
        /\ logins[l].status = 401
        /\ loginAttempts[k] = [present |-> TRUE, count |-> 1, firstAttempt |-> now]

\* C8: a check made more than 15 minutes after the entry's first attempt is
\* allowed and resets the entry to count 1 starting now; the first-attempt
\* time of an entry changes in no other way.
C8_WindowAnchored ==
    [][\A k \in Keys :
         /\ \A l \in Logins :
               ( /\ ArrivalOf(l) /\ AttemptFor(logins'[l], k)
                 /\ loginAttempts[k].present
                 /\ now - loginAttempts[k].firstAttempt > 15 * 60 * 1000 ) =>
                  /\ logins'[l].pc = "findOne_await"
                  /\ loginAttempts'[k] = [present |-> TRUE, count |-> 1,
                                          firstAttempt |-> now]
         /\ ( /\ loginAttempts[k].present /\ loginAttempts'[k].present
              /\ loginAttempts'[k].firstAttempt # loginAttempts[k].firstAttempt ) =>
               /\ now - loginAttempts[k].firstAttempt > 15 * 60 * 1000
               /\ loginAttempts'[k].count = 1
               /\ loginAttempts'[k].firstAttempt = now]_vars

C8_Witness ==
    \E l \in Logins, k \in Keys :
        /\ AttemptFor(logins[l], k) /\ logins[l].branch = "reset"
        /\ logins[l].pc = "findOne_await"
        /\ now > 15 * 60 * 1000
        /\ loginAttempts[k] = [present |-> TRUE, count |-> 1, firstAttempt |-> now]

----------------------------------------------------------------------------
(* optionalAuth (middleware/auth.js:158-189).  No route mounts it; it is   *)
(* applied here in front of a public handler, the use its comment names.   *)

\* from the header to the call of User.findById, at time t; every early
\* return and the catch block call next() and leave req.user alone
OptionalAuthSync(q, t) ==
    IF HeaderFalsy(q.header) \/ ~StartsWithBearer(q.header)
    THEN Passed(q, "optionalAuth")
    ELSE LET token == Substring7(q.header) IN
         IF TokenEmpty(token) THEN Passed(q, "optionalAuth")
         ELSE IF JwtVerify(token, t) # "none" THEN Passed(q, "optionalAuth")
         ELSE [q EXCEPT !.pc = "optionalAuth_await",
                        !.decodedId = token.tok.id,
                        !.lookups = q.lookups + 1]

\* variant: the identity is attached for every account that is found
OptionalAuthAfterLookup_anyStatus(q, store) ==
    IF q.decodedId = Undefined THEN Passed(q, "optionalAuth")
    ELSE IF ~Castable(q.decodedId) THEN Passed(q, "optionalAuth")
    ELSE LET user == FindById(store, q.decodedId)
             got == [q EXCEPT !.doc = user] IN
         IF user.exists
         THEN Passed([got EXCEPT !.user = IdentityOf(user)], "optionalAuth")
         ELSE Passed(got, "optionalAuth")

\* the rest of optionalAuth once findById has answered: findById(undefined)
\* answers null, an id that is no ObjectId throws into the catch block
OptionalAuthAfterLookup(q, store) ==
    IF q.decodedId = Undefined THEN Passed(q, "optionalAuth")
    ELSE IF ~Castable(q.decodedId) THEN Passed(q, "optionalAuth")
    ELSE LET user == FindById(store, q.decodedId)
             got == [q EXCEPT !.doc = user] IN
         IF user.exists /\ user.accountStatus = "active"
         THEN Passed([got EXCEPT !.user = IdentityOf(user)], "optionalAuth")
         ELSE Passed(got, "optionalAuth")

\* next() of the last gate: the handler runs
AfterOptionalAuth(q) ==
    IF CalledNext(q, "optionalAuth") THEN InvokeHandler(q) ELSE q

\* a request with the given header reaches optionalAuth
OptionalAuthArrive(r, header) ==
    /\ reqs[r].pc \in {"idle", "done"}
    /\ reqs' = [reqs EXCEPT ![r] =
                  AfterOptionalAuth(
                     OptionalAuthSync([IdleReq EXCEPT !.pc = "run",
                                                      !.route = "productList",
                                                      !.header = header,
                                                      !.at = now], now))]
    /\ UNCHANGED <<now, users, loginAttempts, issued, logins, ticks, accepted,
                 registers, products, jwtSecret, server, allowedSince>>

\* User.findById answers optionalAuth
OptionalAuthResume(r) ==
    /\ reqs[r].pc = "optionalAuth_await"
    /\ reqs' = [reqs EXCEPT ![r] =
                  AfterOptionalAuth(OptionalAuthAfterLookup(reqs[r], users))]
    /\ UNCHANGED <<now, users, loginAttempts, issued, logins, ticks, accepted,
                 registers, products, jwtSecret, server, allowedSince>>

\* the store fails while optionalAuth awaits it: the catch block calls next()
OptionalAuthStoreFault(r) ==
    /\ reqs[r].pc = "optionalAuth_await"
    /\ reqs' = [reqs EXCEPT ![r] =
                  AfterOptionalAuth(Passed([reqs[r] EXCEPT !.fault = TRUE],
                                           "optionalAuth"))]
    /\ UNCHANGED <<now, users, loginAttempts, issued, logins, ticks, accepted,
                 registers, products, jwtSecret, server, allowedSince>>

\* Stores the requests are checked against: the second account in each
\* status (as updateUserRole can leave it), the first one admin or not
StoresOfGate ==
    {[InitUsers EXCEPT !["u2"].accountStatus = st, !["u1"].accountStatus = st1] :
        st \in Statuses, st1 \in {"active", "pending"}}

InitOptionalAuth ==
    /\ now = 0
    /\ ticks = 0
    /\ users \in StoresOfGate
    /\ loginAttempts = [k \in Keys |-> NoEntry]
    /\ issued = {generateToken(Oid(u), InitUsers[u].isAdmin, 0) :
                    u \in {v \in UserIds : InitUsers[v].exists}}
    /\ reqs = [r \in Reqs |-> IdleReq]
    /\ logins = [l \in Logins |-> IdleLogin]
    /\ accepted = {}
    /\ registers = [g \in Regs |-> IdleRegister]
    /\ products = InitProducts
    /\ jwtSecret = TRUE
    /\ server = "listening"
    /\ allowedSince = [k \in Keys |-> 0]

NextOptionalAuth ==
    \/ \E r \in Reqs, header \in Headers : OptionalAuthArrive(r, header)
    \/ \E r \in Reqs : OptionalAuthResume(r)
    \/ \E r \in Reqs : OptionalAuthStoreFault(r)
    \/ Tick(GateDelta(ticks))

SpecOptionalAuth == InitOptionalAuth /\ [][NextOptionalAuth]_vars

\* what verifyToken does with the same header at the same time against the
\* same store, the store answering
VerifyTokenOutcome(header, t, store) ==
    LET s == VerifyTokenSync([IdleReq EXCEPT !.pc = "run", !.header = header], t) IN
    IF s.pc = "verifyToken_await" THEN VerifyTokenAfterLookup(s, store) ELSE s

\* C11: once optionalAuth is done with a request, it has called next once
\* and sent no rejection; the request carries an identity exactly when
\* verifyToken accepts the same request against the same store, and then
\* the same identity; after a store fault it carries none.
C11_OptionalAuthMatchesVerifyToken ==
    \A r \in Reqs :
        LET q == reqs[r]
            v == VerifyTokenOutcome(q.header, q.at, users) IN
        q.pc = "done" =>
            /\ q.trace = <<<<"optionalAuth", "next">>>>
            /\ q.handlerRan /\ q.sent = 1 /\ q.status = 200
            /\ q.fault => ~q.user.present
            /\ ~q.fault =>
                  /\ q.user.present <=> CalledNext(v, "verifyToken")
                  /\ q.user = v.user

C11_Witness ==
    \E r \in Reqs :
        /\ reqs[r].pc = "done" /\ reqs[r].user.present
        /\ reqs[r].user.id = Oid("u2") /\ reqs[r].handlerRan
        /\ reqs[r].trace = <<<<"optionalAuth", "next">>>>

----------------------------------------------------------------------------
(* Registration: the process starts with or without JWT_SECRET in its      *)
(* environment; the store holds the first account only.                    *)

InitRegister ==
    /\ now = 0
    /\ ticks = 0
    /\ users = [InitUsers EXCEPT !["u2"] = NoDoc]
    /\ loginAttempts = [k \in Keys |-> NoEntry]
    /\ issued = {}
    /\ reqs = [r \in Reqs |-> IdleReq]
    /\ logins = [l \in Logins |-> IdleLogin]
    /\ accepted = {}
    /\ registers = [g \in Regs |-> IdleRegister]
    /\ products = InitProducts
    /\ jwtSecret \in BOOLEAN
    /\ server = "starting"
    /\ allowedSince = [k \in Keys |-> 0]

NextRegister ==
    \/ Startup
    \/ StartupFails
    \/ \E g \in Regs, in \in RegisterInputs : RegisterArrive(g, in)
    \/ \E g \in Regs : RegisterFound(g)
    \/ \E g \in Regs : RegisterHashed(g)
    \/ \E g \in Regs : RegisterSaved(g)
    \/ \E g \in Regs : RegisterStoreFault(g)

SpecRegister == InitRegister /\ [][NextRegister]_vars

\* C12 (as claimed): without JWT_SECRET the process does not serve: no
\* register request is taken and then answered with an error because the
\* token cannot be signed, and none has stored an account and then failed.
C12_MissingKeyFailsAtStart ==
    \A g \in Regs :
        /\ ~registers[g].signFailed
        /\ (~jwtSecret /\ registers[g].pc # "idle") => registers[g].created = ""

----------------------------------------------------------------------------
(* Concurrent logins for one key: several requests are in flight at once,  *)
(* each between its awaits, all with the email and address of one key.     *)

RaceLogins == 1..NumRace

RaceInputs == {i \in LoginInputs : i.password # "" /\ validateEmail(i.email)
                                   /\ i.ip = "ip1"}

InitLoginRace ==
    /\ now = 0
    /\ ticks = 0
    /\ users = InitUsers
    /\ loginAttempts = [k \in Keys |-> NoEntry]
    /\ issued = {}
    /\ reqs = [r \in Reqs |-> IdleReq]
    /\ logins = [l \in RaceLogins |-> IdleLogin]
    /\ accepted = {}
    /\ registers = [g \in Regs |-> IdleRegister]
    /\ products = InitProducts
    /\ jwtSecret = TRUE
    /\ server = "listening"
    /\ allowedSince = [k \in Keys |-> 0]

NextLoginRace ==
    \/ \E l \in RaceLogins, in \in RaceInputs : LoginStart(l, in)
    \/ \E l \in RaceLogins : LoginFound(l)
    \/ \E l \in RaceLogins : LoginCompared(l)
    \/ \E l \in RaceLogins : LoginStoreFault(l)
    \/ Tick(LoginDelta(ticks))

SpecLoginRace == InitLoginRace /\ [][NextLoginRace]_vars

\* the request of slot l passed the rate limiter for key k and is waiting
\* for the store or for bcrypt
InFlightFor(l, k) ==
    /\ logins[l].pc \in {"findOne_await", "compare_await"}
    /\ logins[l].identifier = k

\* C13 (as claimed): when two requests of one key are in flight together,
\* both allowed by the rate limiter in the same window, an increment is
\* lost: the stored count is below the number of allowed checks.
C13_LostUpdate ==
    \A k \in Keys : \A l1, l2 \in RaceLogins :
        ( /\ l1 # l2 /\ InFlightFor(l1, k) /\ InFlightFor(l2, k)
          /\ loginAttempts[k].present /\ allowedSince[k] >= 2 ) =>
            loginAttempts[k].count < allowedSince[k]

\* C13 (amended): no increment is lost, whatever requests are in flight:
\* the stored count of a key is the number of checks allowed for it since
\* its entry was created, and a key without entry has none counted.
C13_NoLostUpdate ==
    \A k \in Keys :
        /\ loginAttempts[k].present => loginAttempts[k].count = allowedSince[k]
        /\ ~loginAttempts[k].present => allowedSince[k] = 0

C13_Witness ==
    \E k \in Keys : \E l1, l2 \in RaceLogins :
        /\ l1 # l2 /\ InFlightFor(l1, k) /\ InFlightFor(l2, k)
        /\ logins[l1].branch = "counted" /\ logins[l2].branch = "counted"
        /\ loginAttempts[k].count = 2 /\ allowedSince[k] = 2
        /\ loginAttempts[k].firstAttempt = now

----------------------------------------------------------------------------
(* Properties of registration *)

\* C14: no two accounts hold the same email, and every stored email is in
\* lower case and trimmed; a register request that finds its email taken,
\* at its lookup or (having lost a race) at its save, is answered 409 and
\* has created no account; a request that created an account created it
\* under its own email.
C14_EmailUnique ==
    /\ \A u, v \in UserIds :
          (u # v /\ users[u].exists /\ users[v].exists) =>
              users[u].email # users[v].email
    /\ \A u \in UserIds :
          users[u].exists => users[u].email = NormalizedEmail(users[u].email)
    /\ \A g \in Regs :
          LET q == registers[g] IN
          /\ q.lostRace => q.status = 409 /\ q.pc = "done"
          /\ q.status = 409 =>
                /\ q.created = ""
                /\ \E u \in UserIds : /\ users[u].exists
                                      /\ users[u].email = NormalizedEmail(q.email)
          /\ q.created # "" =>
                /\ users[q.created].exists
                /\ users[q.created].email = NormalizedEmail(q.email)

C14_Witness ==
    \E g, h \in Regs :
        /\ g # h
        /\ registers[g].lostRace /\ registers[g].status = 409
        /\ registers[g].msg = "Email already exists"
        /\ registers[h].status = 201 /\ registers[h].created # ""
        /\ NormalizedEmail(registers[g].email) = NormalizedEmail(registers[h].email)
        /\ registers[g].email # registers[h].email

----------------------------------------------------------------------------
(* Life of a token: the accounts hold tokens issued at a time that is not  *)
(* the start of a second; requests present them around the expiry.         *)

\* the time (milliseconds) at which the tokens were issued
IssueTime == 1000 - 1

\* The clock advances to the last millisecond before the second of expiry
\* or to the second after 24 hours from the issue, then by one millisecond.
LifeDeltas(i) ==
    IF i = 0 THEN {TokenLifetime * 1000 - 1000, TokenLifetime * 1000 + 1}
    ELSE {1}

InitTokenLife ==
    /\ now = IssueTime
    /\ ticks = 0
    /\ users = InitUsers
    /\ loginAttempts = [k \in Keys |-> NoEntry]
    /\ issued = {generateToken(Oid(u), InitUsers[u].isAdmin, IssueTime) :
                    u \in {v \in UserIds : InitUsers[v].exists}}
    /\ reqs = [r \in Reqs |-> IdleReq]
    /\ logins = [l \in Logins |-> IdleLogin]
    /\ accepted = {}
    /\ registers = [g \in Regs |-> IdleRegister]
    /\ products = InitProducts
    /\ jwtSecret = TRUE
    /\ server = "listening"
    /\ allowedSince = [k \in Keys |-> 0]

NextTokenLife ==
    \/ \E r \in Reqs, route \in {"authProfile", "authAdminUsers"} :
          \E header \in {BearerHeader(k) : k \in issued} :
             Arrive(r, route, header, NoInput)
    \/ \E r \in Reqs : VerifyTokenResume(r)
    \/ \E r \in Reqs : VerifyTokenStoreFault(r)
    \/ \E d \in LifeDeltas(ticks) : Tick(d)

SpecTokenLife == InitTokenLife /\ [][NextTokenLife]_vars

\* verifyToken has answered request q, which carries an issued token, and
\* the store did not fail
VerifiedIssued(q) ==
    /\ q.pc = "done" /\ GateRan(q, "verifyToken") /\ ~q.fault
    /\ CarriesToken(q.header) /\ q.header.tok \in issued

ExpiredAnswer(q) ==
    /\ GateRejected(q, "verifyToken") /\ q.status = 401
    /\ q.msg = "Access denied. Token has expired."

\* C15 (as claimed): a token issued at time t is accepted at every time
\* before t + 24h and rejected as expired at every time from t + 24h on.
C15_ExactlyTwentyFourHours ==
    \A r \in Reqs :
        LET q == reqs[r] IN
        VerifiedIssued(q) =>
            /\ q.at < IssueTime + 24 * 60 * 60 * 1000 =>
                  GatePassed(q, "verifyToken")
            /\ q.at >= IssueTime + 24 * 60 * 60 * 1000 => ExpiredAnswer(q)

\* C15 (amended): the life of a token is counted in whole seconds from the
\* second of its issue: it is accepted while the clock's second is below
\* the issue's second plus 86400, and rejected as expired from then on, so
\* at every time from t + 24h on.
C15_TwentyFourHoursInSeconds ==
    \A r \in Reqs :
        LET q == reqs[r] IN
        VerifiedIssued(q) =>
            /\ q.at \div 1000 < IssueTime \div 1000 + 86400 =>
                  GatePassed(q, "verifyToken")
            /\ q.at \div 1000 >= IssueTime \div 1000 + 86400 => ExpiredAnswer(q)
            /\ q.at >= IssueTime + 24 * 60 * 60 * 1000 => ExpiredAnswer(q)

C15_Witness ==
    \E r \in Reqs :
        /\ VerifiedIssued(reqs[r]) /\ ExpiredAnswer(reqs[r])
        /\ reqs[r].at < IssueTime + 24 * 60 * 60 * 1000

----------------------------------------------------------------------------
(* verifyOwnershipOrAdmin (middleware/auth.js:130-155).  No route mounts   *)
(* it; it is applied here to a request with any identity or none, in       *)
(* front of a handler.                                                     *)

\* const resourceUserId = req.params.userId || req.params.id
ResourceUserId(params) ==
    IF Truthy(params.userId) THEN params.userId ELSE params.id

\* variant: the identity's id compared without toString()
VerifyOwnershipOrAdmin_noToString(q) ==
    IF ~q.user.present
    THEN Reject(q, "verifyOwnershipOrAdmin", 401,
                "Access denied. Authentication required.")
    ELSE IF q.user.isAdmin THEN Passed(q, "verifyOwnershipOrAdmin")
    ELSE IF /\ Truthy(ResourceUserId(q.params))
            /\ StrictEq(q.user.id, ResourceUserId(q.params))
    THEN Passed(q, "verifyOwnershipOrAdmin")
    ELSE Reject(q, "verifyOwnershipOrAdmin", 403,
                "Access denied. You can only access your own resources.")

VerifyOwnershipOrAdmin(q) ==
    IF ~q.user.present
    THEN Reject(q, "verifyOwnershipOrAdmin", 401,
                "Access denied. Authentication required.")
    ELSE IF q.user.isAdmin THEN Passed(q, "verifyOwnershipOrAdmin")
    ELSE IF /\ Truthy(ResourceUserId(q.params))
            /\ StrictEq(OidToString(q.user.id), ResourceUserId(q.params))
    THEN Passed(q, "verifyOwnershipOrAdmin")
    ELSE Reject(q, "verifyOwnershipOrAdmin", 403,
                "Access denied. You can only access your own resources.")

\* the path parameters of the requests: either, both or none of :userId, :id
OwnershipParams ==
    {[userId |-> a, id |-> b] :
        a \in {Undefined, Str("u1"), Str("u2")},
        b \in {Undefined, Str("u2"), Str("u3")}}

InitOwnership ==
    /\ now = 0
    /\ ticks = 0
    /\ users = InitUsers
    /\ loginAttempts = [k \in Keys |-> NoEntry]
    /\ issued = {}
    /\ accepted = {}
    /\ logins = [l \in Logins |-> IdleLogin]
    /\ registers = [g \in Regs |-> IdleRegister]
    /\ products = InitProducts
    /\ jwtSecret = TRUE
    /\ server = "listening"
    /\ allowedSince = [k \in Keys |-> 0]
    /\ reqs \in [Reqs -> {[IdleReq EXCEPT !.pc = "run", !.user = id, !.params = pm] :
                              id \in Identities, pm \in OwnershipParams}]

\* express calls verifyOwnershipOrAdmin for request r; next() runs the handler
ApplyVerifyOwnership(r) ==
    /\ reqs[r].pc = "run"
    /\ LET q == VerifyOwnershipOrAdmin(reqs[r]) IN
       reqs' = [reqs EXCEPT ![r] =
                  IF CalledNext(q, "verifyOwnershipOrAdmin") THEN InvokeHandler(q)
                  ELSE q]
    /\ UNCHANGED <<now, users, loginAttempts, issued, logins, ticks, accepted,
                   registers, products, jwtSecret, server, allowedSince>>

NextOwnership == \E r \in Reqs : ApplyVerifyOwnership(r)

SpecOwnership == InitOwnership /\ [][NextOwnership]_vars

\* the owner named by the path (userId, else id) is the identity
NamesIdentity(q) ==
    LET owner == IF q.params.userId # Undefined THEN q.params.userId
                 ELSE q.params.id IN
    /\ q.user.present /\ owner.t = "str" /\ owner.v # ""
    /\ owner.v = q.user.id.v

OwnershipPassed(q) ==
    /\ q.trace = <<<<"verifyOwnershipOrAdmin", "next">>>> /\ q.handlerRan

OwnershipRejected(q, code) ==
    /\ q.trace = <<<<"verifyOwnershipOrAdmin", "reject">>>>
    /\ q.status = code /\ q.sent = 1 /\ ~q.handlerRan

\* C16 (as claimed): the gate calls next for an admin identity and for the
\* identity the path names as owner, and answers 403 in every other case.
C16_OwnerOrAdminElse403 ==
    \A r \in Reqs :
        LET q == reqs[r] IN
        q.pc = "done" =>
            IF (q.user.present /\ q.user.isAdmin) \/ NamesIdentity(q)
            THEN OwnershipPassed(q)
            ELSE OwnershipRejected(q, 403)

\* C16 (amended): without an identity the gate answers 401; with one, it
\* calls next for an admin and for the owner the path names, and answers
\* 403 otherwise.
C16_OwnerOrAdminElse403Or401 ==
    \A r \in Reqs :
        LET q == reqs[r] IN
        q.pc = "done" =>
            IF ~q.user.present THEN OwnershipRejected(q, 401)
            ELSE IF q.user.isAdmin \/ NamesIdentity(q) THEN OwnershipPassed(q)
            ELSE OwnershipRejected(q, 403)

C16_Witness ==
    \E r \in Reqs :
        /\ reqs[r].pc = "done" /\ reqs[r].user.present /\ ~reqs[r].user.isAdmin
        /\ reqs[r].params.userId = Undefined /\ reqs[r].params.id = Str("u2")
        /\ reqs[r].user.id = Oid("u2")
        /\ OwnershipPassed(reqs[r])

----------------------------------------------------------------------------
(* Properties of the admin routes *)

\* the routes of routes/admin.js and the writing routes of the categories
AdminHandlerRoutes == {"adminDashboard", "adminUsers", "adminUserRole",
                       "categoryCreate", "categoryUpdate", "categoryDelete"}

\* C17: on the admin routes and the category create, update and delete
\* routes verifyToken comes first and verifyAdmin second; the handler runs
\* only if the account read from the store by this request's verifyToken
\* is active and admin; verifyAdmin passes exactly when that account is
\* admin, whatever the isAdmin claim of the token says.
C17_AdminHandlersNeedStoredAdmin ==
    /\ \A route \in AdminHandlerRoutes :
          Chain(route) = <<"verifyToken", "verifyAdmin">>
    /\ \A r \in Reqs :
          LET q == reqs[r] IN
          q.route \in AdminHandlerRoutes =>
              /\ q.handlerRan =>
                    /\ q.trace = <<<<"verifyToken", "next">>, <<"verifyAdmin", "next">>>>
                    /\ q.lookups >= 1
                    /\ q.doc.exists /\ q.doc.isAdmin
                    /\ q.doc.accountStatus = "active"
                    /\ q.doc.id = q.header.tok.id.v
              /\ GateRan(q, "verifyAdmin") =>
                    /\ GatePassed(q, "verifyToken")
                    /\ GatePassed(q, "verifyAdmin") <=> q.doc.isAdmin

C17_Witness ==
    \E r \in Reqs :
        /\ reqs[r].route \in AdminHandlerRoutes /\ reqs[r].handlerRan
        /\ ~reqs[r].header.tok.isAdmin /\ reqs[r].doc.isAdmin
        /\ reqs[r].header.tok \in issued

----------------------------------------------------------------------------
(* Properties of updateUserRole *)

\* C18 (as claimed): a request to updateUserRole whose target is the
\* account of the admin who sends it is answered 400 "Cannot modify your own
\* role", whenever the store answers.
C18_OwnRoleUntouched ==
    \A r \in Reqs :
        LET q == reqs[r] IN
        ( /\ Handler(q.route) = "updateUserRole" /\ q.handlerRan
          /\ q.pc = "done" /\ ~q.fault
          /\ q.user.present /\ q.input.id = q.user.id.v ) =>
            /\ q.status = 400
            /\ q.msg = "Cannot modify your own role"

----------------------------------------------------------------------------
(* updateProduct and deleteProduct (productController), for a request that *)
(* verifyToken (and the upload gate) let through with its identity.        *)

\* req.params.id and the name of req.body of the product requests
ProductInputs ==
    {[id |-> p, body |-> [name |-> n]] : p \in {"p1", "p2", "zz"}, n \in {"", "n1"}}

\* Product.findById(id) when the store answers: the document or null
FindProductById(store, id) == IF id \in ProductIds THEN store[id] ELSE NoProduct

\* product.createdBy.toString() !== req.user.id && !req.user.isAdmin
NotAuthorizedForProduct(product, identity) ==
    /\ ~StrictEq(OidToString(Oid(product.createdBy)), identity.id)
    /\ ~identity.isAdmin

\* from the answer of Product.findById to the call of product.save()
UpdateProductAfterFind(q, store) ==
    IF q.input.id \notin ProductIds THEN Respond(q, 500, "Error updating product")
    ELSE LET product == FindProductById(store, q.input.id) IN
         IF ~product.exists THEN Respond(q, 404, "Product not found")
         ELSE IF NotAuthorizedForProduct(product, q.user)
         THEN Respond(q, 403, "Not authorized to update this product")
         ELSE [q EXCEPT !.pc = "updateProduct_save"]

\* from the answer of Product.findById to the call of findByIdAndDelete
DeleteProductAfterFind(q, store) ==
    IF q.input.id \notin ProductIds THEN Respond(q, 500, "Error deleting product")
    ELSE LET product == FindProductById(store, q.input.id) IN
         IF ~product.exists THEN Respond(q, 404, "Product not found")
         ELSE IF NotAuthorizedForProduct(product, q.user)
         THEN Respond(q, 403, "Not authorized to delete this product")
         ELSE [q EXCEPT !.pc = "deleteProduct_delete"]

\* Product.findById answers the handler
ProductFound(r) ==
    /\ reqs[r].pc \in {"updateProduct_await", "deleteProduct_await"}
    /\ reqs' = [reqs EXCEPT ![r] =
                  IF reqs[r].pc = "updateProduct_await"
                  THEN UpdateProductAfterFind(reqs[r], products)
                  ELSE DeleteProductAfterFind(reqs[r], products)]
    /\ UNCHANGED <<now, users, loginAttempts, issued, logins, ticks, accepted,
                   registers, products, jwtSecret, server, allowedSince>>

\* product.save() is done: if (name) product.name = name
UpdateProductSave(r) ==
    /\ reqs[r].pc = "updateProduct_save"
    /\ products' = [products EXCEPT ![reqs[r].input.id].name =
                      IF reqs[r].input.body.name # "" THEN reqs[r].input.body.name
                      ELSE @]
    /\ reqs' = [reqs EXCEPT ![r] = Respond(reqs[r], 200, "Product updated successfully")]
    /\ UNCHANGED <<now, users, loginAttempts, issued, logins, ticks, accepted,
                   registers, jwtSecret, server, allowedSince>>

\* Product.findByIdAndDelete is done
DeleteProductDone(r) ==
    /\ reqs[r].pc = "deleteProduct_delete"
    /\ products' = [products EXCEPT ![reqs[r].input.id] = NoProduct]
    /\ reqs' = [reqs EXCEPT ![r] = Respond(reqs[r], 200, "Product deleted successfully")]
    /\ UNCHANGED <<now, users, loginAttempts, issued, logins, ticks, accepted,
                   registers, jwtSecret, server, allowedSince>>

\* the store fails under a product handler: its catch block answers 500
ProductStoreFault(r) ==
    /\ reqs[r].pc \in {"updateProduct_await", "deleteProduct_await",
                       "updateProduct_save", "deleteProduct_delete"}
    /\ reqs' = [reqs EXCEPT ![r] =
                  Respond([reqs[r] EXCEPT !.fault = TRUE], 500,
                          IF reqs[r].pc \in {"updateProduct_await", "updateProduct_save"}
                          THEN "Error updating product" ELSE "Error deleting product")]
    /\ UNCHANGED <<now, users, loginAttempts, issued, logins, ticks, accepted,
                   registers, products, jwtSecret, server, allowedSince>>

\* the identities verifyToken attaches: those of active accounts
ActiveIdentities == {id \in Identities : id.present /\ id.accountStatus = "active"}

\* the request as the handler receives it: every gate of the chain passed
HandlerEntry(route, id, in) ==
    [IdleReq EXCEPT !.pc = Handler(route) \o "_await", !.route = route,
                    !.user = id, !.input = in, !.handlerRan = TRUE,
                    !.gi = Len(Chain(route)),
                    !.trace = [i \in 1..Len(Chain(route)) |-> <<Chain(route)[i], "next">>]]

InitProduct ==
    /\ now = 0
    /\ ticks = 0
    /\ users = InitUsers
    /\ loginAttempts = [k \in Keys |-> NoEntry]
    /\ issued = {}
    /\ accepted = {}
    /\ logins = [l \in Logins |-> IdleLogin]
    /\ registers = [g \in Regs |-> IdleRegister]
    /\ products = InitProducts
    /\ jwtSecret = TRUE
    /\ server = "listening"
    /\ allowedSince = [k \in Keys |-> 0]
    /\ reqs \in [Reqs -> {HandlerEntry(route, id, in) :
                              route \in {"productUpdate", "productDelete"},
                              id \in ActiveIdentities, in \in ProductInputs}]

NextProduct ==
    \/ \E r \in Reqs : ProductFound(r)
    \/ \E r \in Reqs : UpdateProductSave(r)
    \/ \E r \in Reqs : DeleteProductDone(r)
    \/ \E r \in Reqs : ProductStoreFault(r)

SpecProduct == InitProduct /\ [][NextProduct]_vars

\* C19 (as claimed): for a product that is found, updateProduct and
\* deleteProduct go on (and answer 200) exactly when the user is the
\* product's creator or an admin; any other user is answered 403.
C19_CreatorOrAdminProceeds ==
    \A r \in Reqs :
        LET q == reqs[r]
            product == InitProducts[q.input.id] IN
        ( /\ q.pc = "done" /\ ~q.fault /\ q.input.id \in ProductIds
          /\ product.exists /\ q.status # 404 ) =>
            IF q.user.isAdmin \/ q.user.id.v = product.createdBy
            THEN q.status = 200
            ELSE q.status = 403

----------------------------------------------------------------------------
(* Frame of the rate limiter *)

\* C20: a login attempt that the rate limiter denies (429) leaves the whole
\* map of entries as it was, and every stored entry has a count from 1 to 5.
C20_DeniedChangesNothing ==
    /\ [](\A k \in Keys :
             loginAttempts[k].present =>
                 loginAttempts[k].count >= 1 /\ loginAttempts[k].count <= 5)
    /\ [][\A l \in Logins :
             (ArrivalOf(l) /\ logins'[l].status = 429) =>
                 loginAttempts' = loginAttempts]_vars

C20_Witness ==
    \E l \in Logins, k \in Keys :
        /\ AttemptFor(logins[l], k) /\ logins[l].status = 429
        /\ logins[l].password = "bad"
        /\ loginAttempts[k].present /\ loginAttempts[k].count = 5
        /\ \E j \in Keys : j # k /\ loginAttempts[j].present

----------------------------------------------------------------------------
(* Roles: registrations next to the admin's role updates *)

\* Both accounts exist; clients register and send PUT /api/admin/users/:id
\* with the tokens the server has issued.
\* the register requests whose body asks for the admin role, and the one
\* for the email of the first account
RolesRegisterInputs ==
    {in \in RegisterInputs :
        \/ in.isAdmin = "true"
        \/ NormalizedEmail(in.email) = InitUsers["u1"].email}

\* the role updates whose body names isAdmin
RolesInputs == {i \in RoleInputs : i.body.isAdmin # "undef"}

NextRoles ==
    \/ \E g \in Regs, in \in RolesRegisterInputs : RegisterArrive(g, in)
    \/ \E g \in Regs : RegisterFound(g)
    \/ \E g \in Regs : RegisterHashed(g)
    \/ \E g \in Regs : RegisterSaved(g)
    \/ \E g \in Regs : RegisterStoreFault(g)
    \/ \E r \in Reqs, input \in RolesInputs :
          \E header \in {BearerHeader(k) : k \in issued} :
             Arrive(r, "adminUserRole", header, input)
    \/ \E r \in Reqs : VerifyTokenResume(r)
    \/ \E r \in Reqs : VerifyTokenStoreFault(r)
    \/ \E r \in Reqs : UpdateUserRoleFind(r)
    \/ \E r \in Reqs : UpdateUserRoleSave(r)
    \/ \E r \in Reqs : UpdateUserRoleStoreFault(r)

SpecRoles == Init /\ [][NextRoles]_vars

\* account u is an admin in the store
IsAdminAccount(store, u) == store[u].exists /\ store[u].isAdmin

\* request r is updateUserRole at its save() for account u, having passed
\* verifyToken and verifyAdmin
SavingRoleOf(r, u) ==
    /\ reqs[r].pc = "updateUserRole_save"
    /\ Handler(reqs[r].route) = "updateUserRole"
    /\ reqs[r].input.id = u
    /\ reqs[r].pending.isAdmin = "true"
    /\ GatePassed(reqs[r], "verifyToken")
    /\ GatePassed(reqs[r], "verifyAdmin")

\* C21: register creates the account with isAdmin false whatever the body
\* of the request says, and an account that was not an admin becomes one
\* only in the save() of an updateUserRole request that passed verifyToken
\* and verifyAdmin; so every admin account was an admin initially or was
\* made one by such a request.
C21_AdminOnlyInitiallyOrByAdmin ==
    /\ [](\A g \in Regs :
             (registers[g].created # "" /\ registers[g].status = 201) =>
                 ~registers[g].token.isAdmin)
    /\ [][\A u \in UserIds :
             (IsAdminAccount(users', u) /\ ~IsAdminAccount(users, u)) =>
                 \E r \in Reqs : SavingRoleOf(r, u)]_vars
    /\ [][\A g \in Regs :
             (registers'[g].created # "" /\ registers[g].created = "") =>
                 /\ users'[registers'[g].created].exists
                 /\ ~users'[registers'[g].created].isAdmin]_vars

\* a register request whose body asked for isAdmin true created the third
\* account as a non-admin (its token says so), and an admin's updateUserRole
\* request has since made that account an admin
C21_Witness ==
    /\ \E g \in Regs :
          /\ registers[g].isAdmin = "true" /\ registers[g].status = 201
          /\ registers[g].created = "u3" /\ ~registers[g].token.isAdmin
    /\ IsAdminAccount(users, "u3")
    /\ \E r \in Reqs :
          /\ reqs[r].pc = "done" /\ reqs[r].status = 200
          /\ reqs[r].input.id = "u3" /\ reqs[r].user.present

====
